---- MODULE Spec2Model ----
(***************************************************************************)
(* Model of combine-pdf.py: the transcript loader, wrap_text, create_pdf   *)
(* and the processed-episodes ledger.  Strings are sequences of one-       *)
(* character strings; widths are in 1/1000 point.                          *)
(***************************************************************************)
EXTENDS Integers, Sequences, FiniteSets, TLC

\* ------------------------------------------------------------------ bounds
MaxTextLen == 5          \* longest text given to wrap_text in SpecWrap
MaxWidthSteps == 7       \* widths tried in SpecWrap: 0..MaxWidthSteps spaces
MaxFiles == 3            \* most files in the transcribe directory
MaxRuns == 2             \* runs of the script over the same directory

\* --------------------------------------------------------- string helpers
Whitespace == {" ", "\t", "\n"}

Digits == <<"0", "1", "2", "3", "4", "5", "6", "7", "8", "9">>

IsDigit(c) == \E i \in 1..10 : Digits[i] = c

DigitVal(c) == (CHOOSE i \in 1..10 : Digits[i] = c) - 1

\* the member of a one-element set: The({e(v) : v \in {d}}) is e with v
\* naming the value of d, so that d is computed once
The(S) == CHOOSE x \in S : TRUE

\* s repeated n times
Rep(s, n) == [i \in 1..(n * Len(s)) |-> s[((i - 1) % Len(s)) + 1]]

\* the concatenation of ss[lo..hi] (halving keeps the recursion shallow)
RECURSIVE ConcatRange(_, _, _)
ConcatRange(ss, lo, hi) ==
    IF lo > hi THEN <<>>
    ELSE IF lo = hi THEN ss[lo]
    ELSE ConcatRange(ss, lo, (lo + hi) \div 2) \o ConcatRange(ss, (lo + hi) \div 2 + 1, hi)

\* the concatenation of a sequence of sequences
Concat(ss) == ConcatRange(ss, 1, Len(ss))

\* the members of a set of integers in ascending order
Ascending(S) ==
    [i \in 1..Cardinality(S) |-> CHOOSE x \in S : Cardinality({y \in S : y < x}) = i - 1]

\* str.split(sep): the pieces between the separators, always at least one
SplitOn(s, sep) ==
    The({[i \in 1..(Len(cuts) - 1) |-> SubSeq(s, cuts[i] + 1, cuts[i + 1] - 1)] :
         cuts \in {<<0>> \o Ascending({i \in 1..Len(s) : s[i] = sep}) \o <<Len(s) + 1>>}})

\* str.split(): the maximal runs of non-whitespace, no empty piece
SplitWs(s) ==
    LET starts == Ascending({i \in 1..Len(s) :
                     s[i] \notin Whitespace /\ (i = 1 \/ s[i - 1] \in Whitespace)})
        EndOf(i) == CHOOSE j \in i..Len(s) :
                     /\ \A m \in i..j : s[m] \notin Whitespace
                     /\ (j = Len(s) \/ s[j + 1] \in Whitespace)
    IN  [n \in 1..Len(starts) |-> SubSeq(s, starts[n], EndOf(starts[n]))]

\* str.strip() == ""
IsBlank(s) == \A i \in 1..Len(s) : s[i] \in Whitespace

RECURSIVE RStrip(_)
RStrip(s) ==
    IF s = <<>> THEN <<>>
    ELSE IF s[Len(s)] \in Whitespace THEN RStrip(SubSeq(s, 1, Len(s) - 1))
    ELSE s

\* str(int) for a natural number
RECURSIVE StrNat(_)
StrNat(n) ==
    IF n < 10 THEN <<Digits[n + 1]>>
    ELSE StrNat(n \div 10) \o <<Digits[(n % 10) + 1]>>

\* --------------------------------------------------------- width measurer
font_size == 12

\* Helvetica advance widths (1/1000 em) of the glyphs the model uses
GlyphWidth(c) ==
    CASE c = " " -> 278
      [] c = "a" -> 556
      [] c = "i" -> 222
      [] OTHER -> 0

\* the glyphs that have a width
Glyphs == <<" ", "a", "i">>

\* the widths of the glyphs of s added up, glyph by glyph
stringWidth(s) ==
    LET Count(c) == Cardinality({i \in 1..Len(s) : s[i] = c})
    IN  font_size * (Count(Glyphs[1]) * GlyphWidth(Glyphs[1])
                     + Count(Glyphs[2]) * GlyphWidth(Glyphs[2])
                     + Count(Glyphs[3]) * GlyphWidth(Glyphs[3]))

\* ---------------------------------------------------------------- wrap_text
Fits_wordonly(current_line, word, width) == stringWidth(word) <= width

Fits(current_line, word, width) == stringWidth(current_line \o word) <= width

StartNewLine_drop(word) == <<>>

StartNewLine(word) == word \o <<" ">>

RECURSIVE WrapWords(_, _, _)
WrapWords(words, current_line, width) ==
    IF words = <<>> THEN <<current_line>>
    ELSE IF Fits(current_line, Head(words), width)
         THEN WrapWords(Tail(words), current_line \o Head(words) \o <<" ">>, width)
    ELSE <<current_line>> \o WrapWords(Tail(words), StartNewLine(Head(words)), width)

WrapLine(line, width) ==
    IF IsBlank(line) THEN <<line>>
    ELSE The({WrapWords(words, <<>>, width) : words \in {SplitWs(line)}})

wrap_text(text, width) ==
    The({Concat(wrapped) :
         wrapped \in {[i \in 1..Len(lines) |-> WrapLine(lines[i], width)] :
                      lines \in {SplitOn(text, "\n")}}})

\* ------------------------------------------------- the transcribe directory
F1 == <<"1", ".", "t", "x", "t">>
F2 == <<"2", ".", "t", "x", "t">>
F10 == <<"1", "0", ".", "t", "x", "t">>
Fx == <<"x", ".", "t", "x", "t">>
Fpdf == <<"3", ".", "p", "d", "f">>

FilePool == {F1, F2, F10, Fx, Fpdf}

\* the directories the runs are tried on: os.listdir order is arbitrary, and
\* the .txt files carry distinct episode numbers
Listings ==
    UNION {{d \in [1..n -> FilePool] : \A i, j \in 1..n : d[i] = d[j] => i = j} :
           n \in 0..MaxFiles}

\* ------------------------------------------------------ page geometry
width == 612
height == 792
\* the margins the script passes to create_pdf
ScriptMargins == [left |-> 50, top |-> 50, bottom |-> 50, right |-> 50]

VARIABLES
    margins,            \* the margins parameter of create_pdf
    unreadable          \* files whose bytes no attempted encoding decodes

\* body lines that fit under the title of a first page with margins m
LinesUnderTitle(m) ==
    Cardinality({n \in 0..height : height - m.top - 60 - 14 - 14 * n > m.bottom + 30})

\* body lines that fit under the title on an episode's first page
FirstPageLines == LinesUnderTitle(margins)

\* file contents: a short body, a body of FirstPageLines + 1 lines, a body
\* with a token wider than the page and a blank line, and an empty file
Content(f) ==
    CASE f = F1 -> <<"a", " ", "a">>
      [] f = F2 -> <<"a">> \o Rep(<<"\n", "a">>, LinesUnderTitle(ScriptMargins))
      [] f = F10 -> Rep(<<"a">>, 77) \o <<" ", "i", "\n", "\n", "a">>
      [] OTHER -> <<>>

\* ------------------------------------------------ extract_episode_number
None == -1

RECURSIVE DigitRun(_)
DigitRun(s) ==
    IF s = <<>> \/ ~IsDigit(Head(s)) THEN <<>> ELSE <<Head(s)>> \o DigitRun(Tail(s))

RECURSIVE FirstDigits(_)
FirstDigits(s) ==
    IF s = <<>> THEN <<>>
    ELSE IF IsDigit(Head(s)) THEN DigitRun(s)
    ELSE FirstDigits(Tail(s))

RECURSIVE ToInt(_)
ToInt(ds) ==
    IF ds = <<>> THEN 0 ELSE ToInt(SubSeq(ds, 1, Len(ds) - 1)) * 10 + DigitVal(ds[Len(ds)])

extract_episode_number(filename) ==
    IF FirstDigits(filename) = <<>> THEN None ELSE ToInt(FirstDigits(filename))

\* str(episode_number)
str(n) == IF n = None THEN <<"N", "o", "n", "e">> ELSE StrNat(n)

EndsWithTxt(filename) ==
    /\ Len(filename) >= 4
    /\ SubSeq(filename, Len(filename) - 3, Len(filename)) = <<".", "t", "x", "t">>

\* sorted(os.listdir(...), key=lambda f: int(extract_episode_number(f) or 0))
SortKey_none(f) == 0

SortKey(f) ==
    IF extract_episode_number(f) = None THEN 0 ELSE extract_episode_number(f)

RECURSIVE InsertByKey(_, _)
InsertByKey(sorted, f) ==
    IF sorted = <<>> THEN <<f>>
    ELSE IF SortKey(f) < SortKey(Head(sorted)) THEN <<f>> \o sorted
    ELSE <<Head(sorted)>> \o InsertByKey(Tail(sorted), f)

RECURSIVE SortedListing(_)
SortedListing(d) ==
    IF d = <<>> THEN <<>>
    ELSE The({InsertByKey(sorted, f) :
              sorted \in {SortedListing(SubSeq(d, 1, Len(d) - 1))}, f \in {d[Len(d)]}})

\* ------------------------------------------------------ read_file_content
encodings == <<"utf-8", "ISO-8859-1", "windows-1252", "utf-16">>

\* open(..., encoding=enc).read() without UnicodeDecodeError: an unreadable
\* file fails under every encoding; otherwise ISO-8859-1 decodes any bytes,
\* and the x.txt of the pool is not UTF-8
Decodes(f, enc) ==
    CASE f \in unreadable -> FALSE
      [] enc = "ISO-8859-1" -> TRUE
      [] enc = "utf-8" -> f # Fx
      [] OTHER -> FALSE

ValueError == <<"ValueError">>

read_file_content_lenient(f) == Content(f)

read_file_content(f) ==
    IF \E i \in 1..Len(encodings) : Decodes(f, encodings[i]) THEN Content(f) ELSE ValueError

\* ------------------------------------------------------------- the ledger
get_processed_episodes(log) == {log[i] : i \in 1..Len(log)}

update_log_file(log, episode_number) == Append(log, episode_number)

\* ------------------------------------------------------------------ state
VARIABLES
    directory,          \* os.listdir(transcribe_directory), in listing order
    ledger,             \* lines of processed_episodes.log
    finalized,          \* episode numbers whose pages a c.save() has persisted
    run,                \* runs of the script started so far
    pc,                 \* position of the running script
    li,                 \* loader: position in the sorted listing
    transcripts,        \* (episode_number, text) pairs collected by the loader
    processed_episodes, \* the set create_pdf reads from the ledger
    ii,                 \* index loop position
    bi,                 \* body loop position
    k,                  \* position in wrapped_text
    y_position,
    wrapped_text,
    events,             \* renderer calls and ledger appends of this run, in order
    ledgerAtStart,      \* the ledger when this run started
    interrupted,        \* episode the last aborted run was in the middle of
    wtext, wwidth, wout, wpc    \* a call of wrap_text on its own

vars == <<directory, margins, unreadable, ledger, finalized, run, pc, li, transcripts,
          processed_episodes, ii, bi, k, y_position, wrapped_text, events,
          ledgerAtStart, interrupted, wtext, wwidth, wout, wpc>>

wrapVars == <<wtext, wwidth, wout, wpc>>

runVars == <<li, transcripts, processed_episodes, ii, bi, k, y_position,
             wrapped_text>>

\* ---------------------------------------------------------- renderer calls
\* the item of a call that is made for no episode
NoItem == -2

Draw(y, text, item, kind) ==
    [op |-> "drawString", x |-> margins.left, y |-> y, text |-> text,
     item |-> item, kind |-> kind]

ShowPage(item, kind) ==
    [op |-> "showPage", x |-> 0, y |-> 0, text |-> <<>>, item |-> item, kind |-> kind]

SaveCall_showpage ==
    [op |-> "showPage", x |-> 0, y |-> 0, text |-> <<>>, item |-> NoItem, kind |-> "forced"]

SaveCall == [op |-> "save", x |-> 0, y |-> 0, text |-> <<>>, item |-> NoItem, kind |-> "save"]

LedgerAppend(item) ==
    [op |-> "append", x |-> 0, y |-> 0, text |-> str(item), item |-> item, kind |-> "ledger"]

\* f"Episode {episode_number}"
EpisodeLabel(n) == <<"E", "p", "i", "s", "o", "d", "e", " ">> \o str(n)

IndexTitle == <<"I", "n", "d", "e", "x", " ", "o", "f", " ", "E", "p", "i", "s", "o", "d", "e", "s">>

add_page_header_footer_unkeyed(episode_number) ==
    <<Draw(height - margins.top, EpisodeLabel(0), episode_number, "header"),
      Draw(margins.bottom, EpisodeLabel(0), episode_number, "footer")>>

add_page_header_footer(episode_number) ==
    <<Draw(height - margins.top, EpisodeLabel(episode_number), episode_number, "header"),
      Draw(margins.bottom, EpisodeLabel(episode_number), episode_number, "footer")>>

\* width - margins['left'] - margins['right'], in the unit of stringWidth
UsableWidth == (width - margins.left - margins.right) * 1000

StartY == height - margins.top - 60

PageExhausted_strict(y) == y < margins.bottom + 30

PageExhausted(y) == y <= margins.bottom + 30

\* the statements of the body loop for one episode, in program order
BodySteps_nobreak == <<"header", "title", "wrap", "lines", "log">>

BodySteps_logfirst == <<"header", "title", "wrap", "log", "lines", "endpage">>

BodySteps == <<"header", "title", "wrap", "lines", "log", "endpage">>

StepNames == {BodySteps[i] : i \in 1..Len(BodySteps)}

NextStep(s) ==
    LET i == CHOOSE j \in 1..Len(BodySteps) : BodySteps[j] = s
    IN  IF i = Len(BodySteps) THEN "body" ELSE BodySteps[i + 1]

\* the loader's and create_pdf's tests against the ledger
LoaderSkips_never(episode_number, log) == FALSE

LoaderSkips(episode_number, log) == str(episode_number) \in get_processed_episodes(log)

BodySkips(episode_number, processed) == str(episode_number) \in processed

\* ------------------------------------------------------------------- Init
InitRun ==
    /\ ledger = <<>>
    /\ finalized = {}
    /\ run = 0
    /\ pc = "idle"
    /\ li = 1
    /\ transcripts = <<>>
    /\ processed_episodes = {}
    /\ ii = 1
    /\ bi = 1
    /\ k = 1
    /\ y_position = 0
    /\ wrapped_text = <<>>
    /\ events = <<>>
    /\ ledgerAtStart = <<>>
    /\ interrupted = {}

Init ==
    /\ directory \in Listings
    /\ margins = ScriptMargins
    /\ unreadable = {}
    /\ InitRun
    /\ wtext = <<>> /\ wwidth = 0 /\ wout = <<>> /\ wpc = "off"

\* ---------------------------------------------------------------- actions
\* the script is started (again) on the same directory
StartRun ==
    /\ pc \in {"idle", "done", "aborted"}
    /\ run < MaxRuns
    /\ run' = run + 1
    /\ pc' = "load"
    /\ li' = 1
    /\ transcripts' = <<>>
    /\ processed_episodes' = {}
    /\ ii' = 1 /\ bi' = 1 /\ k' = 1
    /\ y_position' = 0
    /\ wrapped_text' = <<>>
    /\ events' = <<>>
    /\ ledgerAtStart' = ledger
    /\ interrupted' = IF pc = "aborted" THEN interrupted ELSE {}
    /\ UNCHANGED <<directory, margins, unreadable, ledger, finalized, wrapVars>>

\* one iteration of the loader loop
LoadFile ==
    /\ pc = "load"
    /\ li <= Len(directory)
    /\ \E filename \in {SortedListing(directory)[li]} :
       \E episode_number \in {extract_episode_number(filename)} :
           IF ~EndsWithTxt(filename) \/ LoaderSkips(episode_number, ledger)
           THEN /\ transcripts' = transcripts
                /\ li' = li + 1
                /\ pc' = pc
           ELSE \E file_content \in {read_file_content(filename)} :
                IF file_content = ValueError
                THEN /\ pc' = "aborted"
                     /\ UNCHANGED <<transcripts, li>>
                ELSE /\ transcripts' = Append(transcripts,
                             [episode_number |-> episode_number, text |-> file_content])
                     /\ li' = li + 1
                     /\ pc' = pc
    /\ UNCHANGED <<directory, margins, unreadable, ledger, finalized, run, processed_episodes, ii, bi,
                   k, y_position, wrapped_text, events, ledgerAtStart,
                   interrupted, wrapVars>>

\* create_pdf up to the index loop: read the ledger, open the canvas, index title
CreatePdf ==
    /\ pc = "load"
    /\ li > Len(directory)
    /\ processed_episodes' = get_processed_episodes(ledger)
    /\ events' = Append(events, Draw(StartY, IndexTitle, NoItem, "indextitle"))
    /\ y_position' = StartY - 16
    /\ ii' = 1
    /\ pc' = "index"
    /\ UNCHANGED <<directory, margins, unreadable, ledger, finalized, run, li, transcripts, bi, k,
                   wrapped_text, ledgerAtStart, interrupted, wrapVars>>

\* one iteration of the index loop
IndexEntry ==
    /\ pc = "index"
    /\ ii <= Len(transcripts)
    /\ LET episode_number == transcripts[ii].episode_number
           brk == PageExhausted(y_position)
           y == IF brk THEN StartY ELSE y_position
       IN  /\ events' = events
                \o (IF brk THEN <<ShowPage(episode_number, "indexbreak")>>
                                 \o add_page_header_footer(episode_number)
                    ELSE <<>>)
                \o <<Draw(y, EpisodeLabel(episode_number), episode_number, "index")>>
           /\ y_position' = y - 14
    /\ ii' = ii + 1
    /\ UNCHANGED <<directory, margins, unreadable, ledger, finalized, run, pc, li, transcripts,
                   processed_episodes, bi, k, wrapped_text, ledgerAtStart,
                   interrupted, wrapVars>>

\* the page break after the index
IndexBreak ==
    /\ pc = "index"
    /\ ii > Len(transcripts)
    /\ events' = Append(events, ShowPage(NoItem, "forced"))
    /\ bi' = 1
    /\ pc' = "body"
    /\ UNCHANGED <<directory, margins, unreadable, ledger, finalized, run, li, transcripts,
                   processed_episodes, ii, k, y_position, wrapped_text,
                   ledgerAtStart, interrupted, wrapVars>>

\* head of the body loop: the next transcript, skipped when already processed
BodyNext ==
    /\ pc = "body"
    /\ bi <= Len(transcripts)
    /\ IF BodySkips(transcripts[bi].episode_number, processed_episodes)
       THEN bi' = bi + 1 /\ pc' = pc
       ELSE bi' = bi /\ pc' = BodySteps[1]
    /\ UNCHANGED <<directory, margins, unreadable, ledger, finalized, run, li, transcripts,
                   processed_episodes, ii, k, y_position, wrapped_text, events,
                   ledgerAtStart, interrupted, wrapVars>>

Advance(s) ==
    /\ pc' = NextStep(s)
    /\ bi' = IF NextStep(s) = "body" THEN bi + 1 ELSE bi

BodyHeader ==
    /\ pc = "header"
    /\ events' = events \o add_page_header_footer(transcripts[bi].episode_number)
    /\ Advance("header")
    /\ UNCHANGED <<directory, margins, unreadable, ledger, finalized, run, li, transcripts,
                   processed_episodes, ii, k, y_position, wrapped_text,
                   ledgerAtStart, interrupted, wrapVars>>

BodyTitle ==
    /\ pc = "title"
    /\ LET episode_number == transcripts[bi].episode_number
       IN  events' = Append(events,
                Draw(StartY, EpisodeLabel(episode_number), episode_number, "title"))
    /\ y_position' = StartY - 14
    /\ Advance("title")
    /\ UNCHANGED <<directory, margins, unreadable, ledger, finalized, run, li, transcripts,
                   processed_episodes, ii, k, wrapped_text, ledgerAtStart,
                   interrupted, wrapVars>>

BodyWrap ==
    /\ pc = "wrap"
    /\ wrapped_text' = wrap_text(transcripts[bi].text, UsableWidth)
    /\ k' = 1
    /\ Advance("wrap")
    /\ UNCHANGED <<directory, margins, unreadable, ledger, finalized, run, li, transcripts,
                   processed_episodes, ii, y_position, events, ledgerAtStart,
                   interrupted, wrapVars>>

\* one iteration of the loop over wrapped_text
BodyLine ==
    /\ pc = "lines"
    /\ k <= Len(wrapped_text)
    /\ LET episode_number == transcripts[bi].episode_number
           brk == PageExhausted(y_position)
           y == IF brk THEN StartY ELSE y_position
       IN  /\ events' = events
                \o (IF brk THEN <<ShowPage(episode_number, "break")>>
                                 \o add_page_header_footer(episode_number)
                    ELSE <<>>)
                \o <<Draw(y, wrapped_text[k], episode_number, "line")>>
           /\ y_position' = y - 14
    /\ k' = k + 1
    /\ UNCHANGED <<directory, margins, unreadable, ledger, finalized, run, pc, li, transcripts,
                   processed_episodes, ii, bi, wrapped_text, ledgerAtStart,
                   interrupted, wrapVars>>

BodyLinesExit ==
    /\ pc = "lines"
    /\ k > Len(wrapped_text)
    /\ Advance("lines")
    /\ UNCHANGED <<directory, margins, unreadable, ledger, finalized, run, li, transcripts,
                   processed_episodes, ii, k, y_position, wrapped_text, events,
                   ledgerAtStart, interrupted, wrapVars>>

BodyLog ==
    /\ pc = "log"
    /\ ledger' = update_log_file(ledger, str(transcripts[bi].episode_number))
    /\ events' = Append(events, LedgerAppend(transcripts[bi].episode_number))
    /\ Advance("log")
    /\ UNCHANGED <<directory, margins, unreadable, finalized, run, li, transcripts,
                   processed_episodes, ii, k, y_position, wrapped_text,
                   ledgerAtStart, interrupted, wrapVars>>

BodyEndPage ==
    /\ pc = "endpage"
    /\ events' = Append(events, ShowPage(transcripts[bi].episode_number, "forced"))
    /\ Advance("endpage")
    /\ UNCHANGED <<directory, margins, unreadable, ledger, finalized, run, li, transcripts,
                   processed_episodes, ii, k, y_position, wrapped_text,
                   ledgerAtStart, interrupted, wrapVars>>

\* c.save(): the document reaches the disk
Save ==
    /\ pc = "body"
    /\ bi > Len(transcripts)
    /\ events' = Append(events, SaveCall)
    /\ finalized' = finalized \cup
            {events[p].item : p \in {q \in 1..Len(events) : events[q].kind = "title"}}
    /\ pc' = "done"
    /\ UNCHANGED <<directory, margins, unreadable, ledger, run, runVars, ledgerAtStart, interrupted,
                   wrapVars>>

\* the episode the body loop has started drawing and not yet logged
MidItem ==
    IF /\ pc \in StepNames
       /\ \E p \in 1..Len(events) :
            /\ events[p].item = transcripts[bi].episode_number
            /\ events[p].kind \in {"title", "line"}
       /\ ~\E p \in 1..Len(events) :
            /\ events[p].item = transcripts[bi].episode_number
            /\ events[p].kind = "ledger"
    THEN {transcripts[bi].episode_number}
    ELSE {}

\* a fatal error or a kill anywhere in the run: nothing drawn so far is saved
Crash ==
    /\ pc \notin {"idle", "done", "aborted"}
    /\ pc' = "aborted"
    /\ interrupted' = MidItem
    /\ UNCHANGED <<directory, margins, unreadable, ledger, finalized, run, runVars, events,
                   ledgerAtStart, wrapVars>>

Next ==
    \/ StartRun
    \/ LoadFile
    \/ CreatePdf
    \/ IndexEntry
    \/ IndexBreak
    \/ BodyNext
    \/ BodyHeader
    \/ BodyTitle
    \/ BodyWrap
    \/ BodyLine
    \/ BodyLinesExit
    \/ BodyLog
    \/ BodyEndPage
    \/ Save
    \/ Crash

Spec == Init /\ [][Next]_vars

\* ------------------------------------------------- wrap_text on its own
Alphabet == {"a", "i", " ", "\n"}

Texts == UNION {[1..n -> Alphabet] : n \in 0..MaxTextLen}

Widths == {n * GlyphWidth(" ") * font_size : n \in 0..MaxWidthSteps}

InitWrap ==
    /\ directory = <<>>
    /\ margins = ScriptMargins
    /\ unreadable = {}
    /\ InitRun
    /\ wtext \in Texts
    /\ wwidth \in Widths
    /\ wout = <<>>
    /\ wpc = "call"

WrapCall ==
    /\ wpc = "call"
    /\ wout' = wrap_text(wtext, wwidth)
    /\ wpc' = "returned"
    /\ UNCHANGED <<directory, margins, unreadable, ledger, finalized, run, pc, runVars, events,
                   ledgerAtStart, interrupted, wtext, wwidth>>

NextWrap == WrapCall

SpecWrap == InitWrap /\ [][NextWrap]_vars

\* ------------------------------------------------------------ properties
Positions(kinds) == {p \in 1..Len(events) : events[p].kind \in kinds}

PositionsOf(n, kinds) == {p \in Positions(kinds) : events[p].item = n}

\* the texts of the body lines drawn so far for episode n before position p
LinesBefore(n, p) ==
    LET ps == Ascending({q \in PositionsOf(n, {"line"}) : q < p})
    IN  [i \in 1..Len(ps) |-> events[ps[i]].text]

\* the text the loader read for episode n
TextOf(n) ==
    transcripts[CHOOSE i \in 1..Len(transcripts) : transcripts[i].episode_number = n].text

LedgerSet == {ledger[i] : i \in 1..Len(ledger)}

\* C1: every ledger append of a run comes after the title and after every
\* wrapped line of its episode has been drawn, so at any point of the run
\* (a crash included) what the run has added to the ledger are episodes
\* whose whole wrapped text is drawn
C1_AppendAfterAllLines ==
    /\ \A p \in Positions({"ledger"}) :
         /\ \E q \in PositionsOf(events[p].item, {"title"}) : q < p
         /\ LinesBefore(events[p].item, p) = wrap_text(TextOf(events[p].item), UsableWidth)
    /\ ledger = ledgerAtStart
                \o [i \in 1..Cardinality(Positions({"ledger"})) |->
                      events[Ascending(Positions({"ledger"}))[i]].text]

C1_Witness ==
    /\ pc = "aborted"
    /\ \E p \in Positions({"ledger"}) : events[p].item = 10

\* C2: after an aborted run the ledger names only episodes whose pages a
\* successful c.save() has persisted
C2_AbortLeavesOnlyFinalized ==
    pc = "aborted" => \A i \in 1..Len(ledger) : \E n \in finalized : ledger[i] = str(n)

\* C3: a run makes no renderer call for an episode that was in the ledger
\* when the run started: nothing is drawn for it and no page is broken for it
C3_SecondRunSilent ==
    /\ \A p \in 1..Len(events) :
         (events[p].op \in {"drawString", "showPage"} /\ events[p].item # NoItem)
            => str(events[p].item) \notin get_processed_episodes(ledgerAtStart)
    /\ \A i \in 1..Len(ledgerAtStart) : \A p \in 1..Len(events) :
         events[p].text # <<"E", "p", "i", "s", "o", "d", "e", " ">> \o ledgerAtStart[i]

C3_Witness ==
    /\ run = 2
    /\ pc = "done"
    /\ Len(ledgerAtStart) >= 2

\* the .txt files of the directory whose episode was in the ledger at the start
ProcessedAtStart ==
    {extract_episode_number(directory[i]) : i \in
        {j \in 1..Len(directory) :
            /\ EndsWithTxt(directory[j])
            /\ str(extract_episode_number(directory[j]))
                  \in get_processed_episodes(ledgerAtStart)}}

KeyOf(n) == IF n = None THEN 0 ELSE n

\* the items of the events of the given kinds, in the order of the events
ItemsIn(kinds) ==
    [i \in 1..Cardinality(Positions(kinds)) |-> events[Ascending(Positions(kinds))[i]].item]

\* C5: index entries are drawn in ascending numeric key, the body draws of
\* an episode with a smaller key all precede those of one with a larger key,
\* and the body phase follows the order of the index
C5_AscendingNumericOrder ==
    /\ \A p, q \in Positions({"index"}) :
         KeyOf(events[p].item) < KeyOf(events[q].item) => p < q
    /\ \A p, q \in Positions({"title", "line", "break"}) :
         KeyOf(events[p].item) < KeyOf(events[q].item) => p < q
    /\ pc = "done" => ItemsIn({"index"}) = ItemsIn({"title"})

C5_Witness ==
    /\ pc = "done"
    /\ directory = <<F2, F10, F1>>
    /\ ItemsIn({"title"}) = <<1, 2, 10>>

\* C6 as stated: after the ledger append for an episode no renderer call,
\* draw or page break, is made for that episode
C6_LogIsLast ==
    \A p \in Positions({"ledger"}) : \A q \in 1..Len(events) :
        (q > p /\ events[q].item = events[p].item)
            => events[q].op \notin {"drawString", "showPage"}

\* C6 amended: after the ledger append for an episode nothing is drawn for
\* it; the one renderer call that follows for it is the forced page break,
\* made right after the append
C6_OnlyPageBreakAfterLog ==
    \A p \in Positions({"ledger"}) : \A q \in 1..Len(events) :
        (q > p /\ events[q].item = events[p].item)
            => (q = p + 1 /\ events[q].op = "showPage" /\ events[q].kind = "forced")

C6_Witness ==
    \E p \in Positions({"ledger"}) :
        /\ p < Len(events)
        /\ events[p + 1].op = "showPage"
        /\ events[p + 1].item = events[p].item

\* the episode the body loop is at, when its title is drawn and not yet all
\* of its wrapped lines
PartlyDrawn ==
    IF /\ pc \in StepNames
       /\ PositionsOf(transcripts[bi].episode_number, {"title"}) # {}
       /\ \/ pc = "wrap"
          \/ Cardinality(PositionsOf(transcripts[bi].episode_number, {"line"}))
                < Len(wrapped_text)
    THEN {transcripts[bi].episode_number}
    ELSE {}

\* the draws of episode n in this run, from its header to its last line
FullyDrawn(n) ==
    /\ \E h \in PositionsOf(n, {"header"}) :
         /\ events[h + 1].kind = "footer" /\ events[h + 1].item = n
         /\ events[h + 2].kind = "title" /\ events[h + 2].item = n
         /\ \A p \in PositionsOf(n, {"line"}) : p > h + 2
    /\ LinesBefore(n, Len(events)) = wrap_text(TextOf(n), UsableWidth)

\* C7: an episode that is only partly drawn is not in the ledger, also when
\* the run is aborted there; the next run loads it again and, when it
\* completes, has drawn it from its header and title to its last line
C7_CrashMidItemReprocessed ==
    /\ \A n \in PartlyDrawn : str(n) \notin LedgerSet
    /\ pc = "aborted" => \A n \in interrupted : str(n) \notin LedgerSet
    /\ (pc \notin {"aborted", "load"} /\ run >= 2) =>
         \A n \in interrupted :
            \E i \in 1..Len(transcripts) : transcripts[i].episode_number = n
    /\ (pc = "done" /\ run >= 2) => \A n \in interrupted : FullyDrawn(n)

C7_Witness ==
    /\ pc = "done"
    /\ run = 2
    /\ interrupted = {10}

\* C8: a body of one wrapped line more than fits under the title breaks the
\* page exactly once, and the overflow line is the first line of the new
\* page, drawn at the start offset
C8_OneLineOverflow ==
    (pc \in {"log", "endpage"} /\ Len(wrapped_text) = FirstPageLines + 1) =>
        LET n == transcripts[bi].episode_number
            lines == Ascending(PositionsOf(n, {"line"}))
            breaks == PositionsOf(n, {"break"})
        IN  /\ Cardinality(breaks) = 1
            /\ Len(lines) = FirstPageLines + 1
            /\ \A b \in breaks :
                 /\ \A i \in 1..FirstPageLines : lines[i] < b
                 /\ lines[FirstPageLines + 1] = b + 3
                 /\ events[b + 1].kind = "header"
                 /\ events[b + 2].kind = "footer"
            /\ events[lines[FirstPageLines + 1]].y = height - margins.top - 60
            /\ events[lines[FirstPageLines + 1]].text = wrapped_text[FirstPageLines + 1]
            /\ \A i \in 1..FirstPageLines :
                 events[lines[i]].y > margins.bottom + 30

C8_Witness ==
    /\ pc = "log"
    /\ Len(wrapped_text) = FirstPageLines + 1
    /\ Cardinality(PositionsOf(transcripts[bi].episode_number, {"line"})) = FirstPageLines + 1

\* the tokens of an output line
TokensOf(line) == SplitWs(line)

\* C9 as stated: every returned line, measured as returned, is at most the
\* width, unless it is a single token that is itself wider
C9_AsReturned ==
    wpc = "returned" =>
        \A i \in 1..Len(wout) :
            \/ stringWidth(wout[i]) <= wwidth
            \/ /\ Len(TokensOf(wout[i])) = 1
               /\ stringWidth(TokensOf(wout[i])[1]) > wwidth

\* C9 amended: every returned line, measured without its trailing
\* whitespace, is at most the width, unless it is a single token that is
\* itself wider
C9_WithoutTrailingSpace ==
    wpc = "returned" =>
        \A i \in 1..Len(wout) :
            \/ stringWidth(RStrip(wout[i])) <= wwidth
            \/ /\ Len(TokensOf(wout[i])) = 1
               /\ stringWidth(TokensOf(wout[i])[1]) > wwidth

C9_Witness ==
    /\ wpc = "returned"
    /\ \E i \in 1..Len(wout) :
         /\ Len(TokensOf(wout[i])) = 2
         /\ stringWidth(wout[i]) > wwidth
         /\ stringWidth(RStrip(wout[i])) = wwidth

\* C10: for every newline-delimited segment of the input, the tokens of the
\* output lines made for it are the segment's tokens, in order
C10_TokensPreserved ==
    wpc = "returned" =>
        LET segs == SplitOn(wtext, "\n")
            chunks == [i \in 1..Len(segs) |-> WrapLine(segs[i], wwidth)]
        IN  /\ wout = Concat(chunks)
            /\ \A i \in 1..Len(segs) :
                 Concat([j \in 1..Len(chunks[i]) |-> TokensOf(chunks[i][j])])
                    = SplitWs(segs[i])

C10_Witness ==
    /\ wpc = "returned"
    /\ Len(SplitOn(wtext, "\n")) = 2
    /\ Len(SplitWs(SplitOn(wtext, "\n")[1])) = 2
    /\ Len(wout) >= 3

\* the newline-delimited segments of the text given to wrap_text
Segments == SplitOn(wtext, "\n")

\* the output lines wrap_text makes for segment i
ChunkOf(i) == WrapLine(Segments[i], wwidth)

\* C11: a token wider than the width is put unchanged and alone on a line of
\* its own, and no further line is made for it: a segment never gets more
\* output lines than it has tokens
C11_WideTokenAlone ==
    wpc = "returned" =>
        /\ wout = Concat([i \in 1..Len(Segments) |-> ChunkOf(i)])
        /\ \A i \in 1..Len(Segments) :
             ~IsBlank(Segments[i]) =>
                /\ \A j \in 1..Len(SplitWs(Segments[i])) :
                     stringWidth(SplitWs(Segments[i])[j]) > wwidth =>
                        \E l \in 1..Len(ChunkOf(i)) :
                            TokensOf(ChunkOf(i)[l]) = <<SplitWs(Segments[i])[j]>>
                /\ Len(ChunkOf(i)) <= Len(SplitWs(Segments[i]))

\* C12: an empty input line gives exactly one empty output line, in its
\* place among the lines of the other segments, and a segment that is not
\* blank gives no empty output line
C12_BlankLinesPreserved ==
    wpc = "returned" =>
        /\ wout = Concat([i \in 1..Len(Segments) |-> ChunkOf(i)])
        /\ \A i \in 1..Len(Segments) :
             /\ Segments[i] = <<>> => ChunkOf(i) = << <<>> >>
             /\ ~IsBlank(Segments[i]) =>
                    \A l \in 1..Len(ChunkOf(i)) : ChunkOf(i)[l] # <<>>

\* ------------------------------------- a directory that overflows the index
\* index entries that fit under the index title on the first page
IndexPageEntries(m) ==
    Cardinality({n \in 0..height : height - m.top - 60 - 16 - 14 * n > m.bottom + 30})

\* 43.txt, 42.txt, ..., 1.txt: one file more than the first index page holds
BigListing ==
    [i \in 1..(IndexPageEntries(ScriptMargins) + 1) |->
        StrNat(IndexPageEntries(ScriptMargins) + 2 - i) \o <<".", "t", "x", "t">>]

InitBig ==
    /\ directory = BigListing
    /\ margins = ScriptMargins
    /\ unreadable = {}
    /\ InitRun
    /\ wtext = <<>> /\ wwidth = 0 /\ wout = <<>> /\ wpc = "off"

SpecBig == InitBig /\ [][Next]_vars

\* a step that draws an index entry or a body line
DrawsLine ==
    /\ Len(events') > Len(events)
    /\ events'[Len(events')].kind \in {"index", "line"}

\* C13: in the index loop and in the body loop alike, a line is drawn at the
\* cursor and the cursor then goes down by 14; the page is broken exactly
\* when the cursor is at or below bottom margin + 30 as the line is about to
\* be drawn, and then the cursor is first reset to the start offset
C13_CursorFlow ==
    [][DrawsLine =>
        LET e == events'[Len(events')]
            broke == \E p \in (Len(events) + 1)..Len(events') : events'[p].op = "showPage"
        IN  /\ broke <=> (y_position <= margins.bottom + 30)
            /\ e.y = IF broke THEN height - margins.top - 60 ELSE y_position
            /\ y_position' = e.y - 14
            /\ broke => /\ Len(events') = Len(events) + 4
                        /\ events'[Len(events) + 1].op = "showPage"
            /\ ~broke => /\ Len(events') = Len(events) + 1
                         /\ e.y > margins.bottom + 30]_vars

C13_Witness ==
    /\ pc = "done"
    /\ \E p \in Positions({"indexbreak"}) :
         events[p + 3].kind = "index" /\ events[p + 3].y = height - margins.top - 60
    /\ \E p \in Positions({"break"}) :
         events[p + 3].kind = "line" /\ events[p + 3].y = height - margins.top - 60

\* the positions of the page breaks
Breaks == {q \in 1..Len(events) : events[q].op = "showPage"}

\* the positions of the page that the page break at position p opens
PageAfter(p) ==
    LET later == {b \in Breaks : b > p}
    IN  IF later = {} THEN (p + 1)..Len(events)
        ELSE (p + 1)..((CHOOSE b \in later : \A c \in later : b <= c) - 1)

\* C14: a page with title or body lines of an episode has that episode's
\* header and footer exactly once, first on the page; the title is drawn
\* once per episode, on the page a forced break opens, and never on a page
\* that a break of the line flow opens
C14_HeaderFooterPerPage ==
    /\ \A p \in Breaks :
         (\E c \in PageAfter(p) : events[c].kind \in {"title", "line"}) =>
            LET n == events[p + 1].item
            IN  /\ events[p + 1] = Draw(height - margins.top, EpisodeLabel(n), n, "header")
                /\ events[p + 2] = Draw(margins.bottom, EpisodeLabel(n), n, "footer")
                /\ \A q \in PageAfter(p) :
                     /\ events[q].kind \in {"title", "line"} => events[q].item = n
                     /\ events[q].kind \in {"header", "footer"} => q \in {p + 1, p + 2}
                     /\ events[q].kind = "title" => (q = p + 3 /\ events[p].kind = "forced")
    /\ \A c \in Positions({"title", "line"}) : \E p \in Breaks : p < c
    /\ \A c \in Positions({"line"}) :
         \E t \in Positions({"title"}) : t < c /\ events[t].item = events[c].item
    /\ \A t, u \in Positions({"title"}) : events[t].item = events[u].item => t = u

C14_Witness ==
    /\ pc = "done"
    /\ \E p \in Positions({"break"}) :
         /\ events[p + 3].kind = "line"
         /\ PositionsOf(events[p].item, {"title"}) # {}

\* C15: the page is broken after the index and after every episode, so the
\* header that opens an episode is the first call on its page, and the
\* title and body lines of two episodes are never on one page
C15_CleanPagePerItem ==
    /\ \A t \in Positions({"title"}) :
         /\ t > 3
         /\ events[t - 3].op = "showPage" /\ events[t - 3].kind = "forced"
         /\ events[t - 2].kind = "header" /\ events[t - 2].item = events[t].item
         /\ events[t - 1].kind = "footer" /\ events[t - 1].item = events[t].item
    /\ \A p \in Breaks :
         \A q, r \in {c \in PageAfter(p) : events[c].kind \in {"title", "line"}} :
            events[q].item = events[r].item
    /\ \A c \in Positions({"title", "line"}) :
         \E p \in Positions({"forced"}) :
            /\ events[p].item = NoItem
            /\ p < c
            /\ \A i \in Positions({"index", "indextitle"}) : i < p
    /\ \A a \in Positions({"ledger"}) :
         a < Len(events) => events[a + 1] = ShowPage(events[a].item, "forced")
    /\ pc \in {"body", "done"} =>
         \A c \in Positions({"title"}) : PositionsOf(events[c].item, {"forced"}) # {}

C15_Witness ==
    /\ pc = "done"
    /\ Cardinality(Positions({"title"})) >= 2

\* C16: when the index flow breaks the page, the header and footer of the
\* new index page carry the identifier of the entry drawn next, the first
\* entry of that page; the first index page has the title "Index of Episodes"
\* and neither header nor footer
C16_IndexBreakHeader ==
    /\ \A p \in Positions({"indexbreak"}) :
         /\ p + 3 <= Len(events)
         /\ events[p + 1].kind = "header" /\ events[p + 1].y = height - margins.top
         /\ events[p + 2].kind = "footer" /\ events[p + 2].y = margins.bottom
         /\ events[p + 3].kind = "index" /\ events[p + 3].y = height - margins.top - 60
         /\ events[p + 1].text = events[p + 3].text
         /\ events[p + 2].text = events[p + 3].text
         /\ events[p + 3].text = EpisodeLabel(events[p].item)
    /\ events # <<>> =>
         /\ events[1].text = IndexTitle
         /\ events[1].kind = "indextitle"
         /\ \A q \in Positions({"header", "footer"}) : \E b \in Breaks : b < q

C16_Witness ==
    /\ pc = "body"
    /\ Positions({"indexbreak"}) # {}
    /\ \E b \in Breaks : b > 3 /\ \A c \in Breaks : b <= c

\* ------------------------------------------- runs in which nothing fails
\* a step of the running script
RunStep ==
    \/ LoadFile
    \/ CreatePdf
    \/ IndexEntry
    \/ IndexBreak
    \/ BodyNext
    \/ BodyHeader
    \/ BodyTitle
    \/ BodyWrap
    \/ BodyLine
    \/ BodyLinesExit
    \/ BodyLog
    \/ BodyEndPage
    \/ Save

NextNoFail == StartRun \/ RunStep

\* the script is sequential and, once started, keeps executing
SpecNoFail == Init /\ [][NextNoFail]_vars /\ WF_vars(RunStep)

\* C17: a run in which nothing fails ends, and c.save() is called exactly
\* once, as the last call of the run, after every draw and page break
C17_TerminatesSavedOnce ==
    (pc = "load") ~>
        /\ pc = "done"
        /\ events # <<>>
        /\ events[Len(events)] = SaveCall
        /\ Cardinality({p \in 1..Len(events) : events[p].op = "save"}) = 1

C17_Witness ==
    /\ pc = "done"
    /\ Cardinality(Positions({"title"})) >= 2
    /\ events[Len(events)].op = "save"

\* ---------------------------------------------------- the ledger over runs
\* the episode numbers of the directory's transcripts that are not in the
\* ledger when the run starts, in the order of the sorted listing
NotSkipped ==
    LET sorted == SortedListing(directory)
        keep == Ascending({i \in 1..Len(sorted) :
                    /\ EndsWithTxt(sorted[i])
                    /\ str(extract_episode_number(sorted[i]))
                          \notin get_processed_episodes(ledgerAtStart)})
    IN  [i \in 1..Len(keep) |-> extract_episode_number(sorted[keep[i]])]

\* what the run has appended to the ledger so far
Appended == SubSeq(ledger, Len(ledgerAtStart) + 1, Len(ledger))

IsDecimal(s) == s # <<>> /\ \A i \in 1..Len(s) : IsDigit(s[i])

\* the ledger only grows at its end: what it held when the run started is a
\* prefix of it, the run's appends are those of the episodes it has drawn,
\* in that order, and a completed run has appended one entry for every
\* transcript that was not skipped and none for a skipped one
C18_AppendOnly ==
    /\ Len(ledgerAtStart) <= Len(ledger)
    /\ SubSeq(ledger, 1, Len(ledgerAtStart)) = ledgerAtStart
    /\ Appended = [i \in 1..Len(ItemsIn({"ledger"})) |-> str(ItemsIn({"ledger"})[i])]
    /\ \A i \in 1..Len(Appended) : ItemsIn({"ledger"})[i] = ItemsIn({"title"})[i]
    /\ pc = "done" => Appended = [i \in 1..Len(NotSkipped) |-> str(NotSkipped[i])]

\* C18 as stated: the ledger is append-only over a run, with one entry per
\* transcript that is not skipped, in the order drawn, none for a skipped
\* one, and every entry is the decimal string of an identifier
C18_AppendOnlyDecimal ==
    /\ C18_AppendOnly
    /\ \A i \in 1..Len(ledger) : IsDecimal(ledger[i])

\* ------------------------------------------------- undecodable transcripts
\* any one file of the pool may hold bytes that none of the encodings decodes
InitDecode ==
    /\ directory \in Listings
    /\ margins = ScriptMargins
    /\ unreadable \in {{}} \cup {{f} : f \in FilePool}
    /\ InitRun
    /\ wtext = <<>> /\ wwidth = 0 /\ wout = <<>> /\ wpc = "off"

SpecDecode == InitDecode /\ [][NextNoFail]_vars /\ WF_vars(RunStep)

\* a transcript of the directory that the run has to read and cannot decode
HasUnreadableItem ==
    \E i \in 1..Len(directory) :
        /\ EndsWithTxt(directory[i])
        /\ directory[i] \in unreadable
        /\ str(extract_episode_number(directory[i]))
              \notin get_processed_episodes(ledgerAtStart)

\* C19: a run that has to read a transcript which no encoding decodes never
\* gets to create_pdf: it aborts in the loader, with no renderer call made
\* and nothing appended to the ledger, and it does not complete
C19_UnreadableAborts ==
    /\ [](HasUnreadableItem =>
            /\ pc \in {"idle", "load", "aborted"}
            /\ events = <<>>
            /\ ledger = ledgerAtStart)
    /\ (pc = "load" /\ HasUnreadableItem) ~> (pc = "aborted")

C19_Witness ==
    /\ HasUnreadableItem
    /\ pc = "aborted"
    /\ transcripts # <<>>
    /\ li < Len(directory)

\* ------------------------------------------------------- other margins
\* top and bottom margins create_pdf is tried with: the script's, a short
\* body area, the smallest body area that leaves room below the first line
\* of a page, one point less, and margins that leave no room at all
MarginPool ==
    {ScriptMargins,
     [left |-> 50, top |-> 300, bottom |-> 300, right |-> 50],
     [left |-> 50, top |-> 351, bottom |-> 350, right |-> 50],
     [left |-> 50, top |-> 351, bottom |-> 351, right |-> 50],
     [left |-> 50, top |-> 380, bottom |-> 380, right |-> 50]}

InitMargins ==
    /\ directory \in Listings
    /\ margins \in MarginPool
    /\ unreadable = {}
    /\ InitRun
    /\ wtext = <<>> /\ wwidth = 0 /\ wout = <<>> /\ wpc = "off"

SpecMargins == InitMargins /\ [][NextNoFail]_vars

\* every index entry and body line drawn so far lies above bottom + 30 and
\* not above height - top - 60
FlowInsideBodyArea ==
    \A p \in Positions({"index", "line"}) :
        /\ events[p].y > margins.bottom + 30
        /\ events[p].y <= height - margins.top - 60

\* C20 as stated: whenever top + bottom < height, every index entry and
\* body line is drawn above bottom + 30 and at most at height - top - 60
C20_AnyBodyArea ==
    margins.top + margins.bottom < height => FlowInsideBodyArea

\* C20 amended: whenever top + bottom + 90 < height, every index entry and
\* body line is drawn above bottom + 30 and at most at height - top - 60
C20_BodyAreaAbove90 ==
    margins.top + margins.bottom + 90 < height => FlowInsideBodyArea

C20_Witness ==
    /\ pc = "done"
    /\ margins # ScriptMargins
    /\ margins.top + margins.bottom + 90 < height
    /\ Positions({"break"}) # {}
    /\ Cardinality(Positions({"index"})) >= 2

====
